---- MODULE Spec2Model ----
(***************************************************************************)
(* A model of bakery, a static-site generator: the LaTeX delimiter parser  *)
(* of src/latex.rs, and the site build and watch loop of src/site.rs.      *)
(***************************************************************************)
EXTENDS Integers, Sequences, FiniteSets, TLC

(***************************************************************************)
(* Bounds of the model.                                                    *)
(***************************************************************************)
\* Longest free input text handed to parse_latex.
MaxLen == 6
\* Longest literal on either side of the equation in a composed input.
MaxLit == 1
\* Longest equation source in a composed input.
MaxEq == 2

(***************************************************************************)
(* Strings are sequences of one-character strings.                         *)
(***************************************************************************)
Chars == {"$", "\\", "(", ")", "a"}

StringsUpTo(n) == UNION {[1..k -> Chars] : k \in 0..n}

IsPrefix(t, i) == Len(t) <= Len(i) /\ SubSeq(i, 1, Len(t)) = t

\* The offsets (0-based) at which t occurs in i.
Occurrences(t, i) == {k \in 0..(Len(i) - Len(t)) : SubSeq(i, k + 1, k + Len(t)) = t}

Contains(t, i) == Occurrences(t, i) # {}

MinOf(S) == CHOOSE x \in S : \A y \in S : x <= y

(***************************************************************************)
(* src/latex.rs: the AST and the delimiters.                               *)
(***************************************************************************)
Literal(s) == [kind |-> "Literal", s |-> s]
InlineEq(s) == [kind |-> "InlineEq", s |-> s]
BlockEq(s) == [kind |-> "BlockEq", s |-> s]

\* r#"\\("# is a raw string: two backslashes and a parenthesis.
INLINE_START_DELIM == <<"\\", "\\", "(">>
INLINE_END_DELIM == <<"\\", "\\", ")">>
BLOCK_START_DELIM == <<"$", "$">>
BLOCK_END_DELIM == <<"$", "$">>

(***************************************************************************)
(* The nom combinators the parser is built from. A parser maps an input to *)
(* [ok, rest, out]; Fail is nom's Err(Error).                              *)
(***************************************************************************)
Fail == [ok |-> FALSE, rest |-> <<>>, out |-> <<>>]
Done(rest, out) == [ok |-> TRUE, rest |-> rest, out |-> out]

\* nom::bytes::complete::tag
tag(t, i) ==
    IF IsPrefix(t, i) THEN Done(SubSeq(i, Len(t) + 1, Len(i)), t) ELSE Fail

\* nom::bytes::complete::take_until: up to the first occurrence of t, which
\* is left in the input; an error when t does not occur.
take_until(t, i) ==
    IF Contains(t, i)
    THEN LET k == MinOf(Occurrences(t, i))
         IN  Done(SubSeq(i, k + 1, Len(i)), SubSeq(i, 1, k))
    ELSE Fail

\* nom::combinator::eof
eof(i) == IF i = <<>> THEN Done(i, <<>>) ELSE Fail

\* nom::character::complete::anychar
anychar(i) == IF i = <<>> THEN Fail ELSE Done(Tail(i), Head(i))

\* delimited(tag(open), map(take_until(close), mk), tag(close))
delimited(open, close, i) ==
    LET a == tag(open, i)
        b == take_until(close, a.rest)
        c == tag(close, b.rest)
    IN  IF ~a.ok THEN Fail
        ELSE IF ~b.ok THEN Fail
        ELSE IF ~c.ok THEN Fail
        ELSE Done(c.rest, b.out)

parse_inline_equation(i) ==
    LET r == delimited(INLINE_START_DELIM, INLINE_END_DELIM, i)
    IN  IF r.ok THEN Done(r.rest, InlineEq(r.out)) ELSE Fail

\* A block equation tagged as an inline one.
parse_block_equation_as_inline(i) ==
    LET r == delimited(BLOCK_START_DELIM, BLOCK_END_DELIM, i)
    IN  IF r.ok THEN Done(r.rest, InlineEq(r.out)) ELSE Fail

parse_block_equation(i) ==
    LET r == delimited(BLOCK_START_DELIM, BLOCK_END_DELIM, i)
    IN  IF r.ok THEN Done(r.rest, BlockEq(r.out)) ELSE Fail

\* A terminator that does not stop at the inline open marker.
TextStopForgetsInline(i) ==
    eof(i).ok \/ tag(BLOCK_START_DELIM, i).ok

\* A terminator that does not stop at the block open marker.
TextStopForgetsBlock(i) ==
    eof(i).ok \/ tag(INLINE_START_DELIM, i).ok

\* peek(alt((eof, tag(BLOCK_START_DELIM), tag(INLINE_START_DELIM)))): the
\* terminator of a literal; it consumes nothing.
TextStop(i) ==
    eof(i).ok \/ tag(BLOCK_START_DELIM, i).ok \/ tag(INLINE_START_DELIM, i).ok

\* many_till(anychar, peek(...)) of parse_text: the terminator is tried
\* first, then one more character is taken.
RECURSIVE parse_text_loop(_, _)
parse_text_loop(i, acc) ==
    IF TextStop(i) THEN Done(i, acc)
    ELSE LET c == anychar(i)
         IN  IF ~c.ok THEN Fail
             ELSE parse_text_loop(c.rest, Append(acc, c.out))

parse_text(i) ==
    LET r == parse_text_loop(i, <<>>)
    IN  IF r.ok THEN Done(r.rest, Literal(r.out)) ELSE Fail

\* alt((parse_block_equation, parse_inline_equation, parse_text))
alt_span(i) ==
    IF parse_block_equation(i).ok THEN parse_block_equation(i)
    ELSE IF parse_inline_equation(i).ok THEN parse_inline_equation(i)
    ELSE parse_text(i)

\* The outcome of parse_latex: Ok(spans) or Err("Invalid LaTeX delimiters").
Ok(spans) == [ok |-> TRUE, spans |-> spans]
\* An error that would carry the spans parsed so far.
ErrKeepsSpans(spans) == [ok |-> FALSE, spans |-> spans]
\* map_err: the error holds the message only.
Err(spans) == [ok |-> FALSE, spans |-> <<>>]

\* many_till(alt(...), eof) of parse_latex: eof is tried first; a span that
\* consumed nothing is nom's infinite-loop error.
RECURSIVE many_till_spans(_, _)
many_till_spans(i, res) ==
    IF eof(i).ok THEN Ok(res)
    ELSE LET r == alt_span(i)
         IN  IF ~r.ok THEN Err(res)
             ELSE IF Len(r.rest) = Len(i) THEN Err(res)
             ELSE many_till_spans(r.rest, Append(res, r.out))

parse_latex(i) == many_till_spans(i, <<>>)

(***************************************************************************)
(* What the claims about the parser speak of, stated without the parser.   *)
(***************************************************************************)
OpenOf(kind) == IF kind = "BlockEq" THEN BLOCK_START_DELIM ELSE INLINE_START_DELIM
CloseOf(kind) == IF kind = "BlockEq" THEN BLOCK_END_DELIM ELSE INLINE_END_DELIM

\* The text a span stands for: a literal's text, an equation's source
\* wrapped again in its markers.
SpanSource(sp) ==
    IF sp.kind = "Literal" THEN sp.s
    ELSE OpenOf(sp.kind) \o sp.s \o CloseOf(sp.kind)

RECURSIVE Reconstruct(_)
Reconstruct(spans) ==
    IF spans = <<>> THEN <<>>
    ELSE SpanSource(Head(spans)) \o Reconstruct(Tail(spans))

\* Scanning left to right from offset p (0-based), outside any equation:
\* whether some open marker met by the scan has no close marker after it.
RECURSIVE UnmatchedFrom(_, _)
UnmatchedFrom(t, p) ==
    IF p >= Len(t) THEN FALSE
    ELSE LET rest == SubSeq(t, p + 1, Len(t))
             open == IF IsPrefix(BLOCK_START_DELIM, rest) THEN BLOCK_START_DELIM
                     ELSE IF IsPrefix(INLINE_START_DELIM, rest) THEN INLINE_START_DELIM
                     ELSE <<>>
             close == IF open = BLOCK_START_DELIM THEN BLOCK_END_DELIM
                      ELSE INLINE_END_DELIM
             body == SubSeq(rest, Len(open) + 1, Len(rest))
         IN  IF open = <<>> THEN UnmatchedFrom(t, p + 1)
             ELSE IF ~Contains(close, body) THEN TRUE
             ELSE UnmatchedFrom(t, p + Len(open) + MinOf(Occurrences(close, body))
                                     + Len(close))

HasUnmatchedOpen(t) == UnmatchedFrom(t, 0)

HasOpenMarker(t) == Contains(BLOCK_START_DELIM, t) \/ Contains(INLINE_START_DELIM, t)

(***************************************************************************)
(* src/site.rs, render_content: the rewrite of one page's Markdown events. *)
(* The parser (pulldown-cmark) is outside the program: a page's content is *)
(* the event sequence it yields. An event is [type, s]; s is the text of a *)
(* Code or Text event, the kind of a fence, the fragment of an Html event, *)
(* each a sequence of strings.                                             *)
(***************************************************************************)
Code(s) == [type |-> "Code", s |-> s]
Text(s) == [type |-> "Text", s |-> s]
FenceStart(kind) == [type |-> "FenceStart", s |-> <<kind>>]
FenceEnd(kind) == [type |-> "FenceEnd", s |-> <<kind>>]
Other(what) == [type |-> "Other", s |-> <<what>>]
Html(h) == [type |-> "Html", s |-> h]

\* katex::render_with_opts: KaTeX rejects a source with an unclosed brace
\* (the model's sources have no closing brace).
KatexOk(src) == \A k \in 1..Len(src) : src[k] # "{"
Katex(src, display) == <<"katex", IF display THEN "display" ELSE "inline">> \o src

(***************************************************************************)
(* src/latex.rs: render_latex. Its result is [ok, out, err].               *)
(***************************************************************************)
RenderOk(out) == [ok |-> TRUE, out |-> out, err |-> <<>>]

\* An error that would hand back the output written so far.
RenderErrKeepsOutput(out, s) ==
    [ok |-> FALSE, out |-> out, err |-> <<"Invalid LaTeX equation">> \o s]

\* with_context(...)?: the function returns the error, which holds the
\* message and the equation; out is dropped.
RenderErr(out, s) ==
    [ok |-> FALSE, out |-> <<>>, err |-> <<"Invalid LaTeX equation">> \o s]

\* for item in ast { out += &match item { ... } }; Ok(out)
RECURSIVE render_latex_loop(_, _)
render_latex_loop(ast, out) ==
    IF ast = <<>> THEN RenderOk(out)
    ELSE LET item == Head(ast)
         IN  IF item.kind = "Literal"
             THEN render_latex_loop(Tail(ast), out \o item.s)
             ELSE IF KatexOk(item.s)
             THEN render_latex_loop(Tail(ast), out \o Katex(item.s, item.kind = "BlockEq"))
             ELSE RenderErr(out, item.s)

render_latex(ast) == render_latex_loop(ast, <<>>)

\* SYNTAX_SET.find_syntax_by_token(kind)
KnownSyntaxes == {"rs"}
Highlighted(src, kind) == <<"highlighted", kind>> \o src

starts_with(s, c) == s # <<>> /\ s[1] = c
ends_with(s, c) == s # <<>> /\ s[Len(s)] = c

\* fence_kind: Option<String>
None == <<>>
\* A fence kind that would not be recorded.
SomeForgotten(x) == <<>>
Some(x) == <<x>>

\* One turn of the loop over the events: [status, out, fence], where status
\* is "ok", "err" (the ? on a KaTeX error) or "panic" (the slice
\* s[1..s.len() - 1] of a one-character "$").
Step(status, out, fence) == [status |-> status, out |-> out, fence |-> fence]

\* A render_content that would hand such a text to parse_latex.
text_outside_with_extractor(ev, fence) ==
    IF parse_latex(ev.s).ok THEN Step("ok", <<ev>>, fence)
    ELSE Step("err", <<>>, fence)

\* A render_content that would drop such a text.
text_outside_dropped(ev, fence) == Step("ok", <<>>, fence)

\* Event::Text outside a fenced block with a kind: passed on.
text_outside(ev, fence) == Step("ok", <<ev>>, fence)

rewrite_event(ev, fence) ==
    CASE ev.type = "Code" ->
            IF starts_with(ev.s, "$") /\ ends_with(ev.s, "$")
            THEN IF Len(ev.s) < 2 THEN Step("panic", <<>>, fence)
                 ELSE LET src == SubSeq(ev.s, 2, Len(ev.s) - 1)
                      IN  IF KatexOk(src)
                          THEN Step("ok", <<Html(Katex(src, FALSE))>>, fence)
                          ELSE Step("err", <<>>, fence)
            ELSE Step("ok", <<ev>>, fence)
      [] ev.type = "FenceStart" ->
            IF ev.s[1] = "" THEN Step("ok", <<ev>>, fence)
            ELSE Step("ok", <<>>, Some(ev.s[1]))
      [] ev.type = "FenceEnd" ->
            IF fence = None THEN Step("ok", <<ev>>, fence)
            ELSE Step("ok", <<>>, None)
      [] ev.type = "Text" ->
            IF fence # None
            THEN LET kind == fence[1]
                 IN  IF kind = "latex"
                     THEN IF KatexOk(ev.s)
                          THEN Step("ok", <<Html(Katex(ev.s, TRUE))>>, fence)
                          ELSE Step("err", <<>>, fence)
                     ELSE IF kind \in KnownSyntaxes
                     THEN Step("ok", <<Html(Highlighted(ev.s, kind))>>, fence)
                     ELSE Step("ok", <<Html(<<"<pre><code>">>), Text(ev.s),
                                       Html(<<"</code></pre>">>)>>, fence)
            ELSE text_outside(ev, fence)
      [] OTHER -> Step("ok", <<ev>>, fence)

\* The loop of render_content over one page's events.
RECURSIVE rewrite_events(_, _, _)
rewrite_events(events, fence, out) ==
    IF events = <<>> THEN Step("ok", out, fence)
    ELSE LET r == rewrite_event(Head(events), fence)
         IN  IF r.status # "ok" THEN Step(r.status, <<>>, r.fence)
             ELSE rewrite_events(Tail(events), r.fence, out \o r.out)

\* The closure render_content maps over the pages: the rewritten events are
\* handed to html::push_html and become the page's content.
render_page(content) == rewrite_events(content, None, <<>>)

\* pulldown_cmark's escape_html, which html::push_html applies to the text of
\* Text and Code events: & < > " become entities.
escape_char(c) ==
    CASE c = "&" -> <<"&", "a", "m", "p", ";">>
      [] c = "<" -> <<"&", "l", "t", ";">>
      [] c = ">" -> <<"&", "g", "t", ";">>
      [] c = "\"" -> <<"&", "q", "u", "o", "t", ";">>
      [] OTHER -> <<c>>

RECURSIVE escape_html(_)
escape_html(s) ==
    IF s = <<>> THEN <<>> ELSE escape_char(Head(s)) \o escape_html(Tail(s))

\* html::push_html of one event: Html is written as it is, text is escaped.
push_event(ev) ==
    CASE ev.type = "Html" -> ev.s
      [] ev.type = "Text" -> escape_html(ev.s)
      [] ev.type = "Code" -> <<"<code>">> \o escape_html(ev.s) \o <<"</code>">>
      [] ev.type = "FenceStart" ->
            IF ev.s[1] = "" THEN <<"<pre><code>">>
            ELSE <<"<pre><code class=\"language-", ev.s[1], "\">">>
      [] ev.type = "FenceEnd" -> <<"</code></pre>">>
      [] OTHER -> ev.s

\* html::push_html(&mut out, events.into_iter())
RECURSIVE push_html(_)
push_html(evs) ==
    IF evs = <<>> THEN <<>> ELSE push_event(Head(evs)) \o push_html(Tail(evs))

(***************************************************************************)
(* src/site.rs, watch: the events of the notify watcher and the filter.    *)
(***************************************************************************)
\* Most events waiting on the channel, and most rebuilds of one run.
MaxQueue == 1
MaxBuilds == 2

\* The DebouncedEvent variants that carry a path and are matched by watch,
\* and one of the others (NoticeWrite, NoticeRemove, Rescan, Error).
PathKinds == {"Create", "Chmod", "Write", "Remove", "Rename"}
EventKinds == PathKinds \cup {"Rescan"}

\* File names: a.a, a~ and a.a~
WatchNames == {<<"a", ".", "a">>, <<"a", "~">>, <<"a", ".", "a", "~">>}

\* A path under the site directory: whether it is under target/, and its
\* file name.
WatchPath(in_target, name) == [in_target |-> in_target, name |-> name]
WatchPaths ==
    {WatchPath(FALSE, n) : n \in WatchNames} \cup {WatchPath(TRUE, <<"a", ".", "a">>)}

Event(kind, path) == [kind |-> kind, path |-> path]
\* The site directory itself, the path of the event watch sends first.
SiteDir == WatchPath(FALSE, <<"a">>)

Events == {Event(k, p) : k \in PathKinds, p \in WatchPaths} \cup {Event("Rescan", SiteDir)}

MaxOf(S) == CHOOSE x \in S : \A y \in S : x >= y

\* Path::extension: what follows the last dot of the file name; None when
\* there is no dot, or the only dot begins the name.
extension(name) ==
    LET dots == {k \in 1..Len(name) : name[k] = "."}
    IN  IF dots = {} THEN None
        ELSE IF MaxOf(dots) = 1 THEN None
        ELSE IF name = <<".", ".">> THEN None
        ELSE Some(SubSeq(name, MaxOf(dots) + 1, Len(name)))

\* The condition under which watch rebuilds on an event.
qualifies(ev) ==
    /\ ev.kind \in PathKinds
    /\ ~(IF extension(ev.path.name) = None THEN FALSE
         ELSE ends_with(extension(ev.path.name)[1], "~"))
    /\ ~ev.path.in_target

(***************************************************************************)
(* src/site.rs: results, the site and the files it is loaded from.         *)
(***************************************************************************)
\* anyhow::Result<()>
OkUnit == [ok |-> TRUE, err |-> <<>>]
Error(msg) == [ok |-> FALSE, err |-> msg]

\* Result::or: the first value when it is Ok, the second otherwise.
Or(a, b) == IF a.ok THEN a ELSE b

\* Most page files of a site.
NPages == 2

\* Contents of page files, as the Markdown parser's events.
PlainText == <<Text(<<"a">>)>>
UnmatchedBlock == <<Text(<<"$", "$", "a">>)>>
UnmatchedInline == <<Text(<<"a", "\\", "\\", "(">>)>>
InlineOk == <<Code(<<"$", "a", "$">>)>>
InlineBad == <<Code(<<"$", "{", "$">>)>>
LoneSigil == <<Code(<<"$">>)>>
FenceBad == <<FenceStart("latex"), Text(<<"{">>), FenceEnd("latex")>>

\* A page file: whether its front matter parses, its draft flag, its body.
File(front_ok, draft, content) ==
    [front_ok |-> front_ok, draft |-> draft, content |-> content]

FileChoices ==
    {File(TRUE, FALSE, PlainText), File(TRUE, FALSE, UnmatchedBlock),
     File(TRUE, FALSE, UnmatchedInline),
     File(TRUE, FALSE, InlineOk), File(TRUE, FALSE, InlineBad),
     File(TRUE, FALSE, LoneSigil), File(TRUE, FALSE, FenceBad),
     File(TRUE, TRUE, PlainText), File(FALSE, FALSE, PlainText)}

FileSets == UNION {[1..n -> FileChoices] : n \in 0..NPages}

\* The directory content/: its layout and its page files. The nested
\* layouts are those of plain pages.
ContentDir(layout, files) == [layout |-> layout, files |-> files]
NoFiles == ContentDir("flat", <<>>)
ContentDirs ==
    {ContentDir("flat", fs) : fs \in FileSets}
    \cup {ContentDir("nested", [i \in 1..n |-> File(TRUE, FALSE, PlainText)]) : n \in 1..NPages}

\* How the files lie under content/: "flat", index.md, 2.md, 3.md, or
\* "nested", 1.md, 1/2.md, 1/3.md.
Layouts == {"flat", "nested"}

\* The page name inferred from the file's path under content/, as its path
\* components.
NameOf(layout, i) ==
    IF layout = "flat" THEN (IF i = 1 THEN <<"index">> ELSE <<ToString(i)>>)
    ELSE (IF i = 1 THEN <<"1">> ELSE <<"1", ToString(i)>>)

\* struct Page, with the file's body kept beside the content that
\* render_content overwrites.
Page(layout, i, f) ==
    [name |-> NameOf(layout, i), draft |-> f.draft, raw |-> f.content,
     content |-> f.content, rendered |-> FALSE]

\* A loader without the draft filter.
KeepDrafts(layout, files, i, drafts) ==
    [k \in 1..Len(files) |-> Page(layout, k, files[k])]

\* .filter(|r| .. drafts || !p.draft ..)
RECURSIVE FilterDrafts(_, _, _, _)
FilterDrafts(layout, files, i, drafts) ==
    IF i > Len(files) THEN <<>>
    ELSE (IF drafts \/ ~files[i].draft THEN <<Page(layout, i, files[i])>> ELSE <<>>)
         \o FilterDrafts(layout, files, i + 1, drafts)

NoSite == [pages |-> <<>>, theme_ok |-> FALSE, drafts |-> FALSE]

\* A loader that would take a file whose front matter does not parse as a
\* page like the others.
site_new_lenient(layout, files, drafts, theme_ok) ==
    {[result |-> OkUnit,
      site |-> [pages |-> FilterDrafts(layout, files, 1, drafts),
                theme_ok |-> theme_ok, drafts |-> drafts]]}

\* Site::new: the outcomes of loading the files: an error for a file whose
\* front matter does not parse, else the site of the pages the draft filter
\* keeps.
site_new(layout, files, drafts, theme_ok) ==
    LET bad == {i \in 1..Len(files) : ~files[i].front_ok}
    IN  IF bad # {}
        THEN {[result |-> Error(<<"Invalid front matter in">> \o NameOf(layout, i)),
               site |-> NoSite] : i \in bad}
        ELSE {[result |-> OkUnit,
               site |-> [pages |-> FilterDrafts(layout, files, 1, drafts),
                         theme_ok |-> theme_ok, drafts |-> drafts]]}

Writers == {"sass", "assets", "html", "feed"}
Stages == {"clean"} \cup Writers

\* An entry under the target directory: its path, whether it is a
\* directory, and the stage that made it ("old": it was there before).
Entry(path, dir, by) == [path |-> path, dir |-> dir, by |-> by]

Absent == [exists |-> FALSE, by |-> "nobody", entries |-> {}]
Stale == [exists |-> TRUE, by |-> "old", entries |-> {Entry(<<"old.html">>, FALSE, "old")}]
Created(by) == [exists |-> TRUE, by |-> by, entries |-> {}]

\* What is under the target directory when a build begins was there before.
Aged(t) ==
    [exists |-> t.exists, by |-> IF t.exists THEN "old" ELSE "nobody",
     entries |-> {Entry(e.path, e.dir, "old") : e \in t.entries}]

VARIABLES
    input,      \* the text handed to parse_latex
    shape,      \* how the input was put together
    parsed,     \* parse_latex's result, once it has run
    site,       \* the Site: pages, config.theme's validity, drafts
    bpc,        \* where Site::new and build are
    task,       \* render_content: each page's task
    ast,        \* the spans handed to render_latex
    latex_html, \* the result of render_latex
    cerr,       \* render_content: the error its collect keeps
    res,        \* build: the results clean, sass, assets, html, feed
    spc,        \* build: where each stage is
    htask,      \* render_html: each page's task
    target,     \* the target directory on disk
    reads,      \* every read of a page's content by render_html or render_feed
    ret,        \* what Site::new or build returned
    wpc,        \* where watch is
    queue,      \* the events sent on the channel and not yet received
    builds,     \* the rebuilds watch has started
    wret,       \* what watch returned
    md_events,  \* the Markdown events of the page render_content's closure is given
    md_pos,     \* how many of them its loop has taken
    md_fence,   \* fence_kind
    md_out,     \* events: the rewritten events pushed so far
    md_status,  \* "run", then "ok", "err" (the ?) or "panic"
    md_html,    \* out: the HTML push_html wrote
    content_dir \* the page files under content/ that Site::new last read

latexVars == <<input, shape, parsed, ast, latex_html>>
buildVars == <<site, bpc, task, cerr, res, spc, htask, target, reads, ret>>
watchVars == <<wpc, queue, builds, wret>>
mdVars == <<md_events, md_pos, md_fence, md_out, md_status, md_html>>

\* What Site::new and build leave alone.
notBuildVars == <<input, shape, parsed, ast, latex_html, wpc, queue, builds, wret,
                  md_events, md_pos, md_fence, md_out, md_status, md_html, content_dir>>

vars == <<input, shape, parsed, ast, latex_html, site, bpc, task, cerr, res, spc, htask, target, reads, ret,
          wpc, queue, builds, wret,
          md_events, md_pos, md_fence, md_out, md_status, md_html, content_dir>>

\* parse_latex has not run: no result of parse_latex has this span.
NotParsed == [ok |-> FALSE, spans |-> <<[kind |-> "NotParsed", s |-> <<>>]>>]

\* Composed inputs: literal, open marker, source, close marker, literal.
Literals == {s \in StringsUpTo(MaxLit) : s # <<>> /\ ~HasOpenMarker(s)}
Sources(kind) == {s \in StringsUpTo(MaxEq) : ~Contains(CloseOf(kind), s)}

Shape(form, l1, e, l2) == [form |-> form, l1 |-> l1, e |-> e, l2 |-> l2]

TextOf(sh) ==
    IF sh.form = "free" THEN sh.e
    ELSE sh.l1 \o OpenOf(sh.form) \o sh.e \o CloseOf(sh.form) \o sh.l2

\* The build at rest, for a specification that does not run it.
BuildIdle ==
    /\ site = NoSite
    /\ bpc = "idle"
    /\ task = <<>>
    /\ cerr = OkUnit
    /\ res = [s \in Stages |-> OkUnit]
    /\ spc = [s \in Stages |-> "unspawned"]
    /\ htask = <<>>
    /\ target = Absent
    /\ reads = {}
    /\ ret = OkUnit
    /\ content_dir = NoFiles

\* watch at rest, for a specification that does not run it.
WatchIdle ==
    /\ wpc = "off"
    /\ queue = <<>>
    /\ builds = 0
    /\ wret = OkUnit

\* render_latex has not run: no result of render_latex has this error.
NotRendered == [ok |-> FALSE, out |-> <<>>, err |-> <<"NotRendered">>]

\* render_latex at rest, for a specification that does not run it.
RenderIdle ==
    /\ ast = <<>>
    /\ latex_html = NotRendered

\* parse_latex at rest, for a specification that does not run it.
LatexIdleText ==
    /\ RenderIdle
    /\ shape = [form |-> "free", l1 |-> <<>>, e |-> <<>>, l2 |-> <<>>]
    /\ input = <<>>
    /\ parsed = NotParsed

\* The closure of render_content at rest, for a specification that does not
\* run it on its own.
MdIdle ==
    /\ md_events = <<>>
    /\ md_pos = 0
    /\ md_fence = None
    /\ md_out = <<>>
    /\ md_status = "idle"
    /\ md_html = <<>>

InitLatex ==
    /\ \/ \E t \in StringsUpTo(MaxLen) : shape = Shape("free", <<>>, t, <<>>)
       \/ \E k \in {"BlockEq", "InlineEq"} :
            \E a \in Literals, s \in Sources(k), b \in Literals : shape = Shape(k, a, s, b)
    /\ input = TextOf(shape)
    /\ parsed = NotParsed
    /\ RenderIdle
    /\ BuildIdle
    /\ WatchIdle
    /\ MdIdle

ParseLatex ==
    /\ parsed = NotParsed
    /\ parsed' = parse_latex(input)
    /\ UNCHANGED <<input, shape, ast, latex_html>>
    /\ UNCHANGED buildVars
    /\ UNCHANGED watchVars
    /\ UNCHANGED mdVars
    /\ UNCHANGED content_dir

NextLatex == ParseLatex

SpecLatex == InitLatex /\ [][NextLatex]_vars

(***************************************************************************)
(* render_latex on any list of spans: a caller may hand it spans that      *)
(* parse_latex never yields. The macros are left to KaTeX.                 *)
(***************************************************************************)
\* Most spans of a list.
MaxSpans == 3

\* A literal, a literal that HTML would escape, an empty literal, and for
\* each kind an equation KaTeX renders and one it rejects.
RenderSpans ==
    {Literal(<<"a">>), Literal(<<"<">>), Literal(<<>>),
     InlineEq(<<"a">>), InlineEq(<<"{">>), BlockEq(<<"a">>), BlockEq(<<"{">>)}

InitRender ==
    /\ \E n \in 0..MaxSpans : ast \in [1..n -> RenderSpans]
    /\ latex_html = NotRendered
    /\ shape = [form |-> "free", l1 |-> <<>>, e |-> <<>>, l2 |-> <<>>]
    /\ input = <<>>
    /\ parsed = NotParsed
    /\ BuildIdle
    /\ WatchIdle
    /\ MdIdle

RenderLatex ==
    /\ latex_html = NotRendered
    /\ latex_html' = render_latex(ast)
    /\ UNCHANGED <<input, shape, parsed, ast>>
    /\ UNCHANGED buildVars
    /\ UNCHANGED watchVars
    /\ UNCHANGED mdVars
    /\ UNCHANGED content_dir

NextRender == RenderLatex

SpecRender == InitRender /\ [][NextRender]_vars

(***************************************************************************)
(* The closure of render_content on one page, an event at a time. The      *)
(* events are those pulldown-cmark yields: inline code, text and other     *)
(* events outside code blocks, and fenced blocks, each a start, the        *)
(* block's text as one Text event a line, and an end.                      *)
(***************************************************************************)
\* Most blocks of a page, and most lines of a fenced block.
MaxBlocks == 3
MaxFenceTexts == 2

\* No tag, the equation tag, a tag syntect knows, a tag it does not.
FenceKinds == {"", "latex", "rs", "zz"}
CodeTexts == {<<"a">>, <<"$", "a", "$">>, <<"$", "{", "$">>, <<"$">>}
FenceTexts(kind) == IF kind = "latex" THEN {<<"a">>, <<"{">>} ELSE {<<"<", "a">>}

FencedBlock(kind, t, n) ==
    <<FenceStart(kind)>> \o [k \in 1..n |-> Text(t)] \o <<FenceEnd(kind)>>

Blocks ==
    {<<Code(c)>> : c \in CodeTexts}
    \cup {<<Text(<<"a">>)>>, <<Other("p")>>}
    \cup UNION {{FencedBlock(kind, t, n) : t \in FenceTexts(kind), n \in 0..MaxFenceTexts} :
                  kind \in FenceKinds}

RECURSIVE Flatten(_)
Flatten(bs) == IF bs = <<>> THEN <<>> ELSE Head(bs) \o Flatten(Tail(bs))

InitMd ==
    /\ \E n \in 0..MaxBlocks : \E bs \in [1..n -> Blocks] : md_events = Flatten(bs)
    /\ md_pos = 0
    /\ md_fence = None
    /\ md_out = <<>>
    /\ md_status = "run"
    /\ md_html = <<>>
    /\ LatexIdleText
    /\ BuildIdle
    /\ WatchIdle

\* One turn of for event in Parser::new_ext(..): the match pushes what
\* replaces the event; a ? or a panic leaves the closure.
rewrite_step ==
    /\ md_status = "run"
    /\ md_pos < Len(md_events)
    /\ LET r == rewrite_event(md_events[md_pos + 1], md_fence)
       IN  IF r.status = "ok"
           THEN /\ md_out' = md_out \o r.out
                /\ md_fence' = r.fence
                /\ md_status' = md_status
           ELSE /\ md_status' = r.status
                /\ UNCHANGED <<md_out, md_fence>>
    /\ md_pos' = md_pos + 1
    /\ UNCHANGED <<md_events, md_html>>
    /\ UNCHANGED latexVars
    /\ UNCHANGED buildVars
    /\ UNCHANGED watchVars
    /\ UNCHANGED content_dir

\* After the loop: html::push_html, page.content = out, Ok(()).
push_html_page ==
    /\ md_status = "run"
    /\ md_pos = Len(md_events)
    /\ md_html' = push_html(md_out)
    /\ md_status' = "ok"
    /\ UNCHANGED <<md_events, md_pos, md_fence, md_out>>
    /\ UNCHANGED latexVars
    /\ UNCHANGED buildVars
    /\ UNCHANGED watchVars
    /\ UNCHANGED content_dir

NextMd == rewrite_step \/ push_html_page

SpecMd == InitMd /\ [][NextMd]_vars

(***************************************************************************)
(* Site::new followed by Site::build.                                      *)
(***************************************************************************)
LatexIdle ==
    /\ LatexIdleText
    /\ MdIdle

Init ==
    /\ LatexIdle
    /\ WatchIdle
    /\ site = NoSite
    /\ bpc = "new"
    /\ task = <<>>
    /\ cerr = OkUnit
    /\ res = [s \in Stages |-> OkUnit]
    /\ spc = [s \in Stages |-> "unspawned"]
    /\ htask = <<>>
    /\ target \in {Absent, Stale}
    /\ reads = {}
    /\ ret = OkUnit
    /\ content_dir \in ContentDirs

PageIds == 1..Len(site.pages)

\* Site::new, from the files on disk and the drafts flag.
Site_new ==
    /\ bpc = "new"
    /\ \E drafts \in BOOLEAN, theme_ok \in BOOLEAN :
         \E r \in site_new(content_dir.layout, content_dir.files, drafts, theme_ok) :
            /\ site' = r.site
            /\ bpc' = IF r.result.ok THEN "loaded" ELSE "load_failed"
            /\ ret' = r.result
    /\ UNCHANGED notBuildVars
    /\ UNCHANGED <<task, cerr, res, spc, htask, target, reads>>

\* build calls render_content, which looks the theme up and fails on an
\* unknown one, then maps over the pages in parallel.
render_content_theme ==
    /\ bpc = "loaded"
    /\ IF site.theme_ok
       THEN /\ bpc' = "content"
            /\ task' = [p \in PageIds |-> "pending"]
            /\ ret' = ret
       ELSE /\ bpc' = "returned"
            /\ ret' = Error(<<"Invalid syntax theme">>)
            /\ task' = task
    /\ cerr' = OkUnit
    /\ res' = [s \in Stages |-> OkUnit]
    /\ spc' = [s \in Stages |-> "unspawned"]
    /\ htask' = <<>>
    /\ reads' = {}
    /\ target' = Aged(target)
    /\ UNCHANGED notBuildVars
    /\ UNCHANGED site

\* The error of katex::render_with_opts as ? hands it on: the closure adds no
\* context to it, neither the page's name nor the equation.
KatexError == Error(<<"katex::Error">>)

\* One page's closure: the rewritten events replace the page's content; a
\* KaTeX error is the closure's error; a panic unwinds out of build.
render_content_page(p) ==
    /\ bpc = "content"
    /\ task[p] = "pending"
    /\ LET r == render_page(site.pages[p].content)
       IN  CASE r.status = "ok" ->
                  /\ site' = [site EXCEPT !.pages[p].content = r.out,
                                          !.pages[p].rendered = TRUE]
                  /\ task' = [task EXCEPT ![p] = "ok"]
                  /\ UNCHANGED <<cerr, bpc>>
             [] r.status = "err" ->
                  /\ task' = [task EXCEPT ![p] = "err"]
                  /\ cerr' = IF cerr.ok
                             THEN KatexError
                             ELSE cerr
                  /\ UNCHANGED <<site, bpc>>
             [] OTHER ->
                  /\ bpc' = "panicked"
                  /\ task' = [task EXCEPT ![p] = "panic"]
                  /\ UNCHANGED <<site, cerr>>
    /\ UNCHANGED notBuildVars
    /\ UNCHANGED <<res, spc, htask, target, reads, ret>>

\* A build that would not wait for the pages' closures.
ContentNotAwaited == TRUE

\* A build that would go on once the first page's closure has returned.
ContentJoinedAtFirst == \E p \in PageIds : task[p] # "pending"

\* collect::<Result<()>>() returns once every page's closure has run, or,
\* after an error, leaves out closures that have not started.
ContentJoined ==
    \/ \A p \in PageIds : task[p] # "pending"
    \/ \E p \in PageIds : task[p] = "err"

\* A build that would drop render_content's error and go on to its stages.
render_content_collect_unchecked ==
    /\ bpc = "content"
    /\ ContentJoined
    /\ bpc' = "scope"
    /\ spc' = [spc EXCEPT !["clean"] = "remove"]
    /\ UNCHANGED notBuildVars
    /\ UNCHANGED <<site, task, cerr, res, htask, target, reads, ret>>

\* render_content returns: with ?, its error is build's; else build enters
\* rayon::scope, whose first task runs clean_target_dir.
render_content_collect ==
    /\ bpc = "content"
    /\ ContentJoined
    /\ IF \E p \in PageIds : task[p] = "err"
       THEN /\ bpc' = "returned"
            /\ ret' = cerr
            /\ spc' = spc
       ELSE /\ bpc' = "scope"
            /\ ret' = ret
            /\ spc' = [spc EXCEPT !["clean"] = "remove"]
    /\ UNCHANGED notBuildVars
    /\ UNCHANGED <<site, task, cerr, res, htask, target, reads>>

\* clean_target_dir: let _ = fs::remove_dir_all(target): it may fail, and
\* its error is dropped.
clean_target_dir_remove ==
    /\ spc["clean"] = "remove"
    /\ \/ target' = Absent
       \/ target.exists /\ target' = target
    /\ spc' = [spc EXCEPT !["clean"] = "create"]
    /\ UNCHANGED notBuildVars
    /\ UNCHANGED <<site, bpc, task, cerr, res, htask, reads, ret>>

\* A clean_target_dir after whose failure the four writers are not spawned.
clean_target_dir_create_or_stop ==
    /\ spc["clean"] = "create"
    /\ \/ /\ ~target.exists
          /\ target' = Created("clean")
          /\ res' = [res EXCEPT !["clean"] = OkUnit]
          /\ spc' = [s \in Stages |-> IF s = "clean" THEN "done" ELSE "ready"]
       \/ /\ target' = target
          /\ res' = [res EXCEPT !["clean"] = Error(<<"Error creating", "target">>)]
          /\ spc' = [spc EXCEPT !["clean"] = "done"]
    /\ UNCHANGED notBuildVars
    /\ UNCHANGED <<site, bpc, task, cerr, htask, reads, ret>>

\* clean_target_dir: fs::create_dir(target) fails when the directory is
\* there, or on an I/O error. Then the four writers are spawned, whatever
\* the result.
clean_target_dir_create ==
    /\ spc["clean"] = "create"
    /\ \/ /\ ~target.exists
          /\ target' = Created("clean")
          /\ res' = [res EXCEPT !["clean"] = OkUnit]
       \/ /\ target' = target
          /\ res' = [res EXCEPT !["clean"] = Error(<<"Error creating", "target">>)]
    /\ spc' = [s \in Stages |-> IF s = "clean" THEN "done" ELSE "ready"]
    /\ UNCHANGED notBuildVars
    /\ UNCHANGED <<site, bpc, task, cerr, htask, reads, ret>>

HasEntry(path) == \E e \in target.entries : e.path = path

AddEntry(t, path, dir, by) ==
    [t EXCEPT !.entries = @ \cup {Entry(path, dir, by)}]

Finish(stage, result) ==
    /\ res' = [res EXCEPT ![stage] = result]
    /\ spc' = [spc EXCEPT ![stage] = "done"]

\* render_sass: fs::create_dir(target/css), not recursive, fails if there.
render_sass_create_dir ==
    /\ spc["sass"] = "ready"
    /\ IF target.exists /\ ~HasEntry(<<"css">>)
       THEN /\ target' = AddEntry(target, <<"css">>, TRUE, "sass")
            /\ spc' = [spc EXCEPT !["sass"] = "targets"]
            /\ res' = res
       ELSE /\ Finish("sass", Error(<<"Error creating", "css">>))
            /\ target' = target
    /\ UNCHANGED notBuildVars
    /\ UNCHANGED <<site, bpc, task, cerr, htask, reads, ret>>

\* render_sass: each target is compiled by grass and written under css/.
render_sass_targets ==
    /\ spc["sass"] = "targets"
    /\ \E sass_ok \in BOOLEAN :
         IF sass_ok
         THEN /\ target' = AddEntry(target, <<"css", "style.css">>, FALSE, "sass")
              /\ Finish("sass", OkUnit)
         ELSE /\ target' = target
              /\ Finish("sass", Error(<<"grass">>))
    /\ UNCHANGED notBuildVars
    /\ UNCHANGED <<site, bpc, task, cerr, htask, reads, ret>>

\* What static/ holds: it is missing, or it holds a file and a directory
\* named css.
StaticDirs == {"missing", "css"}

\* fs::create_dir_all(target/css): makes the missing directories and
\* succeeds when they are there.
CreateDirAllCss(t) ==
    IF \E e \in t.entries : e.path = <<"css">>
    THEN t
    ELSE AddEntry(t, <<"css">>, TRUE, "assets")

\* copy_assets: WalkDir over static/ (nothing when it is missing), then
\* fs::create_dir_all of each directory, the first being the target itself.
copy_assets_dirs ==
    /\ spc["assets"] = "ready"
    /\ \E static \in StaticDirs :
         IF static # "missing"
         THEN /\ target' = CreateDirAllCss(IF target.exists THEN target
                                           ELSE Created("assets"))
              /\ spc' = [spc EXCEPT !["assets"] = "files"]
              /\ res' = res
         ELSE /\ target' = target
              /\ Finish("assets", OkUnit)
    /\ UNCHANGED notBuildVars
    /\ UNCHANGED <<site, bpc, task, cerr, htask, reads, ret>>

\* copy_assets: fs::copy of each file.
copy_assets_files ==
    /\ spc["assets"] = "files"
    /\ \E io_ok \in BOOLEAN :
         IF io_ok /\ target.exists
         THEN /\ target' = AddEntry(target, <<"a.png">>, FALSE, "assets")
              /\ Finish("assets", OkUnit)
         ELSE /\ target' = target
              /\ Finish("assets", Error(<<"Error copying asset">>))
    /\ UNCHANGED notBuildVars
    /\ UNCHANGED <<site, bpc, task, cerr, htask, reads, ret>>

\* render_html: Tera::new parses the templates.
render_html_templates ==
    /\ spc["html"] = "ready"
    /\ \E tmpl_ok \in BOOLEAN :
         IF tmpl_ok
         THEN /\ spc' = [spc EXCEPT !["html"] = "pages"]
              /\ htask' = [p \in PageIds |-> "pending"]
              /\ res' = res
         ELSE /\ Finish("html", Error(<<"tera">>))
              /\ htask' = htask
    /\ UNCHANGED notBuildVars
    /\ UNCHANGED <<site, bpc, task, cerr, target, reads, ret>>

\* The directory fs::create_dir(parent) makes for a page, its error dropped:
\* the target itself for index, target/<name> when its own parent is there.
AfterCreateParent(t, name) ==
    IF name = <<"index">>
    THEN IF t.exists THEN t ELSE Created("html")
    ELSE IF /\ t.exists
            /\ Len(name) > 1 =>
                  \E e \in t.entries : e.path = SubSeq(name, 1, Len(name) - 1) /\ e.dir
            /\ ~\E e \in t.entries : e.path = name
    THEN AddEntry(t, name, TRUE, "html")
    ELSE t

ParentExists(t, name) ==
    /\ t.exists
    /\ name # <<"index">> => \E e \in t.entries : e.path = name /\ e.dir

IndexPath(name) == IF name = <<"index">> THEN <<"index.html">> ELSE name \o <<"index.html">>

\* render_html: one page: create the parent, create the file, render the
\* page's content through its template.
render_html_page(p) ==
    /\ spc["html"] = "pages"
    /\ htask[p] = "pending"
    /\ LET name == site.pages[p].name
           t1 == AfterCreateParent(target, name)
       IN  IF ParentExists(t1, name)
           THEN /\ target' = AddEntry(t1, IndexPath(name), FALSE, "html")
                /\ reads' = reads \cup {[stage |-> "html", page |-> p,
                                         rendered |-> site.pages[p].rendered]}
                /\ \E tmpl_ok \in BOOLEAN :
                      htask' = [htask EXCEPT ![p] = IF tmpl_ok THEN "ok" ELSE "err"]
           ELSE /\ target' = t1
                /\ reads' = reads
                /\ htask' = [htask EXCEPT ![p] = "err"]
    /\ UNCHANGED notBuildVars
    /\ UNCHANGED <<site, bpc, task, cerr, res, spc, ret>>

\* render_html: collect::<Result<()>>() over the pages.
render_html_collect ==
    /\ spc["html"] = "pages"
    /\ \/ \A p \in PageIds : htask[p] # "pending"
       \/ \E p \in PageIds : htask[p] = "err"
    /\ Finish("html", IF \E p \in PageIds : htask[p] = "err"
                      THEN Error(<<"Error rendering page">>) ELSE OkUnit)
    /\ UNCHANGED notBuildVars
    /\ UNCHANGED <<site, bpc, task, cerr, htask, target, reads, ret>>

\* render_feed: an entry from every page's content, then File::create of
\* target/atom.xml and the write.
render_feed ==
    /\ spc["feed"] = "ready"
    /\ reads' = reads \cup {[stage |-> "feed", page |-> p,
                             rendered |-> site.pages[p].rendered] : p \in PageIds}
    /\ \E io_ok \in BOOLEAN :
         IF io_ok /\ target.exists
         THEN /\ target' = AddEntry(target, <<"atom.xml">>, FALSE, "feed")
              /\ Finish("feed", OkUnit)
         ELSE /\ target' = target
              /\ Finish("feed", Error(<<"Error creating", "atom.xml">>))
    /\ UNCHANGED notBuildVars
    /\ UNCHANGED <<site, bpc, task, cerr, htask, ret>>

\* A scope that would return as soon as one writer has failed.
ScopeReturnsOnFirstError ==
    \/ \A s \in Stages : spc[s] = "done"
    \/ \E s \in Writers : spc[s] = "done" /\ ~res[s].ok

\* rayon::scope returns when every task spawned in it has finished.
ScopeJoined == \A s \in Stages : spc[s] = "done"

\* clean.or(sass).or(assets).or(html).or(feed)
build_result ==
    Or(Or(Or(Or(res["clean"], res["sass"]), res["assets"]), res["html"]), res["feed"])

build_return ==
    /\ bpc = "scope"
    /\ ScopeJoined
    /\ bpc' = "returned"
    /\ ret' = build_result
    /\ UNCHANGED notBuildVars
    /\ UNCHANGED <<site, task, cerr, res, spc, htask, target, reads>>

Next ==
    \/ Site_new
    \/ render_content_theme
    \/ \E p \in PageIds : render_content_page(p)
    \/ render_content_collect
    \/ clean_target_dir_remove
    \/ clean_target_dir_create
    \/ render_sass_create_dir
    \/ render_sass_targets
    \/ copy_assets_dirs
    \/ copy_assets_files
    \/ render_html_templates
    \/ \E p \in PageIds : render_html_page(p)
    \/ render_html_collect
    \/ render_feed
    \/ build_return

Spec == Init /\ [][Next]_vars

(***************************************************************************)
(* Site::watch: the loop over the watcher's events, each rebuild a         *)
(* Site::new followed by Site::build.                                      *)
(***************************************************************************)
\* The files Site::new finds at a rebuild.
WatchFileSets ==
    {<<>>, <<File(TRUE, FALSE, PlainText)>>, <<File(TRUE, FALSE, InlineBad)>>,
     <<File(FALSE, FALSE, PlainText)>>}

InitWatch ==
    /\ LatexIdle
    /\ site \in {[pages |-> <<>>, theme_ok |-> TRUE, drafts |-> d] : d \in BOOLEAN}
    /\ bpc = "idle"
    /\ task = <<>>
    /\ cerr = OkUnit
    /\ res = [s \in Stages |-> OkUnit]
    /\ spc = [s \in Stages |-> "unspawned"]
    /\ htask = <<>>
    /\ target \in {Absent, Stale}
    /\ reads = {}
    /\ ret = OkUnit
    /\ wpc = "start"
    /\ queue = <<>>
    /\ builds = 0
    /\ wret = OkUnit
    /\ content_dir = NoFiles

\* watch sends itself a Write of the site directory, then creates the
\* watcher and watches the directory: either may fail, and ? returns it.
watch_start ==
    /\ wpc = "start"
    /\ \E notify_ok \in BOOLEAN :
         IF notify_ok
         THEN /\ wpc' = "recv"
              /\ queue' = <<Event("Write", SiteDir)>>
              /\ wret' = wret
         ELSE /\ wpc' = "returned"
              /\ queue' = queue
              /\ wret' = Error(<<"notify">>)
    /\ UNCHANGED builds
    /\ UNCHANGED latexVars
    /\ UNCHANGED mdVars
    /\ UNCHANGED content_dir
    /\ UNCHANGED buildVars

\* The watcher's thread sends an event, whatever watch is doing.
watcher_send ==
    /\ wpc \in {"recv", "new", "build"}
    /\ Len(queue) < MaxQueue
    /\ \E ev \in Events : queue' = Append(queue, ev)
    /\ UNCHANGED <<wpc, builds, wret>>
    /\ UNCHANGED latexVars
    /\ UNCHANGED mdVars
    /\ UNCHANGED content_dir
    /\ UNCHANGED buildVars

\* A loop that would take the next event while a build is running.
watch_recv_during_build ==
    /\ wpc \in {"recv", "build"}
    /\ queue # <<>>
    /\ builds < MaxBuilds
    /\ LET ev == Head(queue)
       IN  /\ queue' = Tail(queue)
           /\ wpc' = IF qualifies(ev) THEN "new" ELSE wpc
           /\ builds' = IF qualifies(ev) THEN builds + 1 ELSE builds
    /\ UNCHANGED wret
    /\ UNCHANGED latexVars
    /\ UNCHANGED mdVars
    /\ UNCHANGED content_dir
    /\ UNCHANGED buildVars

\* rx.recv() and the match on the event.
watch_recv ==
    /\ wpc = "recv"
    /\ queue # <<>>
    /\ builds < MaxBuilds
    /\ LET ev == Head(queue)
       IN  /\ queue' = Tail(queue)
           /\ wpc' = IF qualifies(ev) THEN "new" ELSE "recv"
           /\ builds' = IF qualifies(ev) THEN builds + 1 ELSE builds
    /\ UNCHANGED wret
    /\ UNCHANGED latexVars
    /\ UNCHANGED mdVars
    /\ UNCHANGED content_dir
    /\ UNCHANGED buildVars

\* let site = Site::new(&dir, drafts)?;
watch_site_new ==
    /\ wpc = "new"
    /\ \E files \in WatchFileSets, theme_ok \in BOOLEAN :
         \E r \in site_new("flat", files, site.drafts, theme_ok) :
            /\ content_dir' = ContentDir("flat", files)
            /\ IF r.result.ok
               THEN /\ site' = r.site
                    /\ bpc' = "loaded"
                    /\ wpc' = "build"
                    /\ wret' = wret
               ELSE /\ site' = site
                    /\ bpc' = bpc
                    /\ wpc' = "returned"
                    /\ wret' = r.result
    /\ UNCHANGED <<queue, builds>>
    /\ UNCHANGED latexVars
    /\ UNCHANGED mdVars
    /\ UNCHANGED <<task, cerr, res, spc, htask, target, reads, ret>>

\* site.build()?; and back to rx.recv().
watch_build_returned ==
    /\ wpc = "build"
    /\ bpc = "returned"
    /\ IF ret.ok
       THEN wpc' = "recv" /\ wret' = wret
       ELSE wpc' = "returned" /\ wret' = ret
    \* build consumed the site, and its locals are gone.
    /\ site' = [pages |-> <<>>, theme_ok |-> TRUE, drafts |-> site.drafts]
    /\ bpc' = "idle"
    /\ task' = <<>>
    /\ cerr' = OkUnit
    /\ res' = [s \in Stages |-> OkUnit]
    /\ spc' = [s \in Stages |-> "unspawned"]
    /\ htask' = <<>>
    /\ reads' = {}
    /\ ret' = OkUnit
    /\ UNCHANGED <<queue, builds, target>>
    /\ UNCHANGED latexVars
    /\ UNCHANGED mdVars
    /\ UNCHANGED content_dir

NextWatch ==
    \/ watch_start
    \/ watcher_send
    \/ watch_recv
    \/ watch_site_new
    \/ watch_build_returned
    \/ render_content_theme
    \/ \E p \in PageIds : render_content_page(p)
    \/ render_content_collect
    \/ clean_target_dir_remove
    \/ clean_target_dir_create
    \/ render_sass_create_dir
    \/ render_sass_targets
    \/ copy_assets_dirs
    \/ copy_assets_files
    \/ render_html_templates
    \/ \E p \in PageIds : render_html_page(p)
    \/ render_html_collect
    \/ render_feed
    \/ build_return

SpecWatch == InitWatch /\ [][NextWatch]_vars

(***************************************************************************)
(* Claims about parse_latex, checked under SpecLatex.                      *)
(***************************************************************************)
WasParsed == parsed # NotParsed

\* C8: when every open marker the scan meets has a close marker after it,
\* parse_latex succeeds, and its spans, each equation wrapped again in its
\* open and close markers, concatenate to the input.
C8_RoundTrip ==
    (WasParsed /\ ~HasUnmatchedOpen(input))
        => (parsed.ok /\ Reconstruct(parsed.spans) = input)

\* A balanced input holding both a literal and an equation has been parsed.
C8_Witness ==
    /\ WasParsed
    /\ ~HasUnmatchedOpen(input)
    /\ parsed.ok
    /\ \E k \in 1..Len(parsed.spans) : parsed.spans[k].kind = "InlineEq"
    /\ \E k \in 1..Len(parsed.spans) : parsed.spans[k].kind = "Literal"

\* C9: when an open marker has no close marker after it, parse_latex is an
\* error and carries no span, not even those parsed before the marker.
C9_UnmatchedFails ==
    (WasParsed /\ HasUnmatchedOpen(input))
        => (~parsed.ok /\ parsed.spans = <<>>)

\* An input with text before its unmatched marker has been parsed.
C9_Witness ==
    /\ WasParsed
    /\ HasUnmatchedOpen(input)
    /\ ~IsPrefix(BLOCK_START_DELIM, input)
    /\ ~IsPrefix(INLINE_START_DELIM, input)
    /\ ~parsed.ok

\* The spans the claim C10 expects of a composed input.
ExpectedSpans(sh) ==
    IF sh.form = "BlockEq" THEN <<Literal(sh.l1), BlockEq(sh.e), Literal(sh.l2)>>
    ELSE IF sh.form = "InlineEq" THEN <<Literal(sh.l1), InlineEq(sh.e), Literal(sh.l2)>>
    ELSE <<Literal(sh.e)>>

\* C10 as stated: literal, marker, source, marker, literal parses to exactly
\* those three spans for every literal without an open marker and every
\* source without a close marker; a text without markers is one Literal.
C10_AsStated ==
    (WasParsed /\ (shape.form = "free" => ~HasOpenMarker(input)))
        => (parsed.ok /\ parsed.spans = ExpectedSpans(shape))

EndsWithDollar(t) == t # <<>> /\ t[Len(t)] = "$"

\* C10, amended: the inline form always parses to its three spans; the $$
\* form does so when neither the leading literal nor the source ends in a
\* dollar sign; a non-empty text without markers is one Literal, and the
\* empty text has no span.
C10_Amended ==
    WasParsed =>
        /\ shape.form = "InlineEq"
            => (parsed.ok /\ parsed.spans = ExpectedSpans(shape))
        /\ (shape.form = "BlockEq" /\ ~EndsWithDollar(shape.l1) /\ ~EndsWithDollar(shape.e))
            => (parsed.ok /\ parsed.spans = ExpectedSpans(shape))
        /\ (shape.form = "free" /\ ~HasOpenMarker(input) /\ input # <<>>)
            => (parsed.ok /\ parsed.spans = ExpectedSpans(shape))
        /\ (shape.form = "free" /\ input = <<>>)
            => (parsed.ok /\ parsed.spans = <<>>)

\* A composed $$ input with a non-empty source parsed to its three spans.
C10_Witness ==
    /\ WasParsed
    /\ shape.form = "BlockEq"
    /\ shape.e # <<>>
    /\ parsed.ok
    /\ parsed.spans = <<Literal(shape.l1), BlockEq(shape.e), Literal(shape.l2)>>

(***************************************************************************)
(* Claims about Site::build, checked under Spec.                           *)
(***************************************************************************)
ScopeRan == spc["clean"] = "done"
Failed(s) == spc[s] = "done" /\ ~res[s].ok

\* C1 as stated: build returns a failure whenever one of the five stages
\* failed, the error being that of a stage that failed, and returns success
\* only if every stage succeeded.
C1_AsStated ==
    (bpc = "returned" /\ ScopeRan) =>
        /\ (\E s \in Stages : Failed(s))
              => (~ret.ok /\ \E s \in Stages : Failed(s) /\ ret = res[s])
        /\ ret.ok => \A s \in Stages : res[s].ok

Started(s) == spc[s] \notin {"unspawned", "ready"}

\* C2: render_html and render_feed start only after render_content has
\* rendered every page, and every read they make of a page's content finds
\* it rendered.
C2_ContentBeforeReaders ==
    /\ \A s \in {"html", "feed"} :
          Started(s) => \A p \in PageIds : site.pages[p].rendered
    /\ \A r \in reads : r.rendered

\* Both readers have read both pages of a two-page site.
C2_Witness ==
    /\ Len(site.pages) = 2
    /\ \A p \in PageIds : \A s \in {"html", "feed"} :
          [stage |-> s, page |-> p, rendered |-> TRUE] \in reads

\* C3 as stated: whatever a writer stage has put under the target directory
\* was put there after clean_target_dir finished, into the directory that
\* clean_target_dir removed and created again.
C3_AsStated ==
    /\ (\E e \in target.entries : e.by \in Writers)
          => (spc["clean"] = "done" /\ target.by = "clean")
    /\ target.exists => target.by \notin Writers

\* The step a writer stage that has not finished takes next.
StageStep(s) ==
    CASE s = "sass" -> render_sass_create_dir \/ render_sass_targets
      [] s = "assets" -> copy_assets_dirs \/ copy_assets_files
      [] s = "html" -> \/ render_html_templates
                       \/ \E p \in PageIds : render_html_page(p)
                       \/ render_html_collect
      [] OTHER -> render_feed

\* C6: once clean_target_dir has succeeded, every writer stage that has not
\* finished can take its next step whatever its siblings' results are, and
\* build returns only when all four have finished.
C6_SiblingsRunToCompletion ==
    (ScopeRan /\ res["clean"].ok) =>
        \A s \in Writers :
            /\ (bpc = "scope" /\ spc[s] # "done") => ENABLED StageStep(s)
            /\ bpc = "returned" => spc[s] = "done"

\* build has returned after a failed render_sass and three successful
\* siblings, whose files are all there.
C6_Witness ==
    /\ bpc = "returned"
    /\ res["clean"].ok
    /\ Failed("sass")
    /\ \A s \in Writers \ {"sass"} : spc[s] = "done" /\ res[s].ok
    /\ \A path \in {<<"a.png">>, <<"atom.xml">>, <<"index.html">>} : HasEntry(path)

\* A page's file has, in a Text event, an open marker without its close.
HasUnmatchedMarker(raw) ==
    \E k \in 1..Len(raw) : raw[k].type = "Text" /\ HasUnmatchedOpen(raw[k].s)

HasBadEquation(raw) ==
    \E k \in 1..Len(raw) :
        \/ /\ raw[k].type = "Code"
           /\ Len(raw[k].s) >= 2
           /\ raw[k].s[1] = "$" /\ raw[k].s[Len(raw[k].s)] = "$"
           /\ ~KatexOk(SubSeq(raw[k].s, 2, Len(raw[k].s) - 1))
        \/ /\ raw[k].type = "Text"
           /\ ~KatexOk(raw[k].s)
           /\ \E j \in 1..(k - 1) :
                 /\ raw[j] = FenceStart("latex")
                 /\ \A m \in (j + 1)..(k - 1) : raw[m].type = "Text"

C4_AsStated == wpc = "returned" => builds = 0

\* What C5 expects of an event: no rebuild for a path under the target
\* directory or a file name ending in ~, a rebuild for any other path.
ShouldRebuild(ev) == ~ev.path.in_target /\ ~ends_with(ev.path.name, "~")

\* C5 as stated: on receiving a create, write, remove or rename event, watch
\* rebuilds exactly when the path is outside the target directory and its
\* file name does not end in ~.
C5_AsStated ==
    [][(watch_recv /\ Head(queue).kind \in {"Create", "Write", "Remove", "Rename"})
          => ((wpc' = "new") <=> ShouldRebuild(Head(queue)))]_vars

(***************************************************************************)
(* Claims about the rewrite of a page's events, checked under SpecMd.      *)
(***************************************************************************)
Rewritten == md_status = "ok"

SigilWrapped(ev) == ev.type = "Code" /\ starts_with(ev.s, "$") /\ ends_with(ev.s, "$")

\* The k-th event lies after the start of a fenced block with a tag and
\* before its end.
InTaggedFence(evs, k) ==
    \E i \in 1..(k - 1) :
        /\ evs[i].type = "FenceStart" /\ evs[i].s[1] # ""
        /\ \A j \in (i + 1)..(k - 1) : evs[j].type # "FenceEnd"

\* The interception points: sigil-wrapped inline code, the start and the end
\* of a fenced block with a tag, and the text inside one.
Intercepted(evs, k) ==
    \/ SigilWrapped(evs[k])
    \/ evs[k].type = "FenceStart" /\ evs[k].s[1] # ""
    \/ evs[k].type = "FenceEnd" /\ evs[k].s[1] # ""
    \/ evs[k].type = "Text" /\ InTaggedFence(evs, k)

RECURSIVE NotInterceptedFrom(_, _)
NotInterceptedFrom(evs, k) ==
    IF k > Len(evs) THEN <<>>
    ELSE (IF Intercepted(evs, k) THEN <<>> ELSE <<evs[k]>>)
         \o NotInterceptedFrom(evs, k + 1)

\* What the transformer puts in place of intercepted events: Html events,
\* and the text between <pre><code> and </code></pre>.
Replacement(evs, k) ==
    \/ evs[k].type = "Html"
    \/ evs[k].type = "Text" /\ k > 1 /\ evs[k - 1] = Html(<<"<pre><code>">>)

RECURSIVE PassedOnFrom(_, _)
PassedOnFrom(evs, k) ==
    IF k > Len(evs) THEN <<>>
    ELSE (IF Replacement(evs, k) THEN <<>> ELSE <<evs[k]>>)
         \o PassedOnFrom(evs, k + 1)

\* C11: when the rewrite of a page succeeds, the events it does not
\* intercept are in its output as they were, in the order they came in,
\* none dropped, doubled or moved.
C11_PassThroughInOrder ==
    Rewritten => PassedOnFrom(md_out, 1) = NotInterceptedFrom(md_events, 1)

\* A page was rewritten that has an intercepted event between two events
\* that are not.
C11_Witness ==
    /\ Rewritten
    /\ \E i, j, k \in 1..Len(md_events) :
          /\ i < j /\ j < k
          /\ ~Intercepted(md_events, i)
          /\ Intercepted(md_events, j)
          /\ ~Intercepted(md_events, k)

\* The text of a fenced block, from its k-th event to its end.
RECURSIVE BlockTextFrom(_, _)
BlockTextFrom(evs, k) ==
    IF k > Len(evs) \/ evs[k].type = "FenceEnd" THEN <<>>
    ELSE evs[k].s \o BlockTextFrom(evs, k + 1)

\* One display-mode fragment for each block tagged latex, of all its text.
RECURSIVE ExpectedDisplay(_, _)
ExpectedDisplay(evs, k) ==
    IF k > Len(evs) THEN <<>>
    ELSE (IF evs[k] = FenceStart("latex")
          THEN <<Html(Katex(BlockTextFrom(evs, k + 1), TRUE))>> ELSE <<>>)
         \o ExpectedDisplay(evs, k + 1)

IsDisplayFragment(ev) ==
    ev.type = "Html" /\ Len(ev.s) >= 2 /\ ev.s[1] = "katex" /\ ev.s[2] = "display"

\* C12 as stated: a rewritten page has, for each of its blocks tagged
\* latex, exactly one fragment, the display-mode rendering of the whole
\* text of the block, into however many Text events it is split.
C12_AsStated ==
    Rewritten => SelectSeq(md_out, IsDisplayFragment) = ExpectedDisplay(md_events, 1)

\* A text without its first and its last character.
Strip(t) == SubSeq(t, 2, Len(t) - 1)

\* C13 as stated: the turn of the loop on an inline code span wrapped in the
\* sigil pushes one Html event, the inline-mode rendering of the text
\* without its leading and trailing sigil, or leaves with the renderer's
\* error; on any other inline code span it pushes the event itself.
C13_AsStated ==
    [][(rewrite_step /\ md_events[md_pos + 1].type = "Code") =>
          LET ev == md_events[md_pos + 1]
          IN  IF SigilWrapped(ev)
              THEN \/ /\ md_status' = "run"
                      /\ md_out' = Append(md_out, Html(Katex(Strip(ev.s), FALSE)))
                   \/ /\ md_status' = "err"
                      /\ md_out' = md_out
              ELSE /\ md_status' = "run"
                   /\ md_out' = Append(md_out, ev)]_vars

\* HTML-unescaping: each entity back to its character.
EscapedChars == {"&", "<", ">", "\""}

RECURSIVE unescape_html(_)
unescape_html(h) ==
    IF h = <<>> THEN <<>>
    ELSE IF \E c \in EscapedChars : IsPrefix(escape_char(c), h)
    THEN LET c == CHOOSE x \in EscapedChars : IsPrefix(escape_char(x), h)
         IN  <<c>> \o unescape_html(SubSeq(h, Len(escape_char(c)) + 1, Len(h)))
    ELSE <<Head(h)>> \o unescape_html(Tail(h))

UnknownTag(kind) == kind # "" /\ kind # "latex" /\ kind \notin KnownSyntaxes

Positions(tok, h) == {k \in 1..Len(h) : h[k] = tok}

\* The page has one fenced block, its tag unknown, and no equation.
OneUnknownFence(evs) ==
    /\ Cardinality({k \in 1..Len(evs) : evs[k].type = "FenceStart"}) = 1
    /\ \A k \in 1..Len(evs) :
          /\ evs[k].type = "FenceStart" => UnknownTag(evs[k].s[1])
          /\ ~SigilWrapped(evs[k])

\* C14 as stated: a fenced block with an unknown tag never makes the rewrite
\* fail, and the page's HTML has exactly one <pre><code> .. </code></pre>
\* for it, whose content unescapes to the text of the block.
C14_AsStated ==
    OneUnknownFence(md_events) =>
        /\ md_status \in {"run", "ok"}
        /\ md_status = "ok" =>
              LET opens == Positions("<pre><code>", md_html)
                  closes == Positions("</code></pre>", md_html)
                  start == CHOOSE k \in 1..Len(md_events) : md_events[k].type = "FenceStart"
              IN  /\ Cardinality(opens) = 1
                  /\ Cardinality(closes) = 1
                  /\ \A i \in opens, j \in closes :
                        /\ i < j
                        /\ unescape_html(SubSeq(md_html, i + 1, j - 1))
                              = BlockTextFrom(md_events, start + 1)

\* The tag of the fenced block open at the k-th event: that of the last
\* start of a fenced block before it.
OpenTag(evs, k) ==
    LET starts == {i \in 1..(k - 1) : evs[i].type = "FenceStart"}
    IN  IF starts = {} THEN "" ELSE evs[MaxOf(starts)].s[1]

\* C20: in every turn of the loop that goes on, the fence context is there
\* exactly inside a fenced block with a tag; a start of a fenced block sets
\* it to its tag when the tag is not empty and is passed on only when the
\* tag is empty; an end clears it and is passed on exactly when no context
\* was there, which is when its start was passed on; any other event
\* leaves it alone, and a text outside a tagged block is passed on as it is.
C20_FenceStateMachine ==
    [][(rewrite_step /\ md_status' = "run") =>
          LET k == md_pos + 1
              ev == md_events[k]
              passed == md_out' = Append(md_out, ev)
          IN  /\ (md_fence # None) <=> InTaggedFence(md_events, k)
              /\ ev.type = "FenceStart" =>
                    /\ md_fence' = IF ev.s[1] # "" THEN <<ev.s[1]>> ELSE md_fence
                    /\ passed <=> ev.s[1] = ""
                    /\ ~passed => md_out' = md_out
              /\ ev.type = "FenceEnd" =>
                    /\ md_fence' = None
                    /\ passed <=> md_fence = None
                    /\ passed <=> OpenTag(md_events, k) = ""
                    /\ ~passed => md_out' = md_out
              /\ ev.type \notin {"FenceStart", "FenceEnd"} => md_fence' = md_fence
              /\ (ev.type = "Text" /\ ~InTaggedFence(md_events, k)) =>
                    (md_fence = None /\ passed)]_vars

\* A page with a tagged block holding text, then a block without a tag, was
\* rewritten: only the second block's start and end are in the output.
C20_Witness ==
    /\ Rewritten
    /\ \E i \in 1..Len(md_events) :
          /\ md_events[i].type = "FenceStart" /\ md_events[i].s[1] # ""
          /\ md_events[i + 1].type = "Text"
    /\ \E j \in 1..Len(md_events) : md_events[j] = FenceStart("")
    /\ md_fence = None
    /\ SelectSeq(md_out, LAMBDA e : e.type \in {"FenceStart", "FenceEnd"})
          = <<FenceStart(""), FenceEnd("")>>

(***************************************************************************)
(* Claims about Site::new and what build does after it, under Spec.        *)
(***************************************************************************)
BadFrontMatter(fs) == {i \in 1..Len(fs) : ~fs[i].front_ok}

\* C15: when a page file's front matter does not parse, Site::new returns
\* an error naming such a file, with or without drafts and whatever the
\* other files are; there is no Site, no stage runs, nothing is written.
C15_BadFrontMatterFails ==
    (bpc # "new" /\ BadFrontMatter(content_dir.files) # {}) =>
        /\ bpc = "load_failed"
        /\ \E i \in BadFrontMatter(content_dir.files) :
              ret = Error(<<"Invalid front matter in">> \o NameOf(content_dir.layout, i))
        /\ site = NoSite
        /\ \A s \in Stages : spc[s] = "unspawned"
        /\ \A e \in target.entries : e.by \notin Writers

\* Site::new has failed on two files, one of them a page that parses.
C15_Witness ==
    /\ bpc = "load_failed"
    /\ Len(content_dir.files) = 2
    /\ \E i \in 1..2 : content_dir.files[i].front_ok
    /\ ~ret.ok

\* render_content has failed: a page's closure returned an error, or the
\* theme is unknown.
ContentFailed ==
    \/ \E p \in DOMAIN task : task[p] = "err"
    \/ bpc = "returned" /\ ~site.theme_ok

\* C16: once render_content has failed, clean_target_dir and the writers
\* are never started and the target directory stays as it was before the
\* build; what build returns is render_content's error.
C16_ContentFailureStopsBuild ==
    ContentFailed =>
        /\ \A s \in Stages : spc[s] = "unspawned"
        /\ target \in {Absent, Stale}
        /\ bpc \in {"content", "returned", "panicked"}
        /\ bpc = "returned" =>
              /\ ~ret.ok
              /\ ret = IF site.theme_ok THEN cerr ELSE Error(<<"Invalid syntax theme">>)

\* build has returned the KaTeX error of one page of two, the other page
\* rendered, over a target directory with its old file.
C16_Witness ==
    /\ bpc = "returned"
    /\ site.theme_ok
    /\ \E p, q \in DOMAIN task : task[p] = "err" /\ task[q] = "ok"
    /\ ret = cerr
    /\ target = Stale

\* Where the claim C17 puts a page's file under the target directory.
ExpectedIndex(name) ==
    IF name = <<"index">> THEN <<"index.html">> ELSE name \o <<"index.html">>

\* C17 as stated: after a successful clean_target_dir, every page that
\* render_html has processed has its index.html, at index.html for the
\* page index and at <name>/index.html for any other, a name of several
\* components included, in whatever order the pages are taken.
C17_AsStated ==
    (ScopeRan /\ res["clean"].ok) =>
        \A p \in DOMAIN htask :
            htask[p] # "pending" =>
                \E e \in target.entries :
                    e.path = ExpectedIndex(site.pages[p].name) /\ ~e.dir /\ e.by = "html"

Loaded == bpc \notin {"new", "load_failed"}

\* The name and the body of the non-draft page files, of the non-draft pages.
NonDraftFiles ==
    {<<NameOf(content_dir.layout, i), content_dir.files[i].content>> :
        i \in {k \in 1..Len(content_dir.files) : ~content_dir.files[k].draft}}
NonDraftPages ==
    {<<site.pages[p].name, site.pages[p].raw>> : p \in {k \in PageIds : ~site.pages[k].draft}}

\* C18: loaded without drafts, the site has no page whose draft flag is
\* set; loaded with drafts, it has a page for every file; either way its
\* non-draft pages are those of the non-draft files.
C18_DraftFilter ==
    Loaded =>
        /\ ~site.drafts => \A p \in PageIds : ~site.pages[p].draft
        /\ site.drafts =>
              /\ Len(site.pages) = Len(content_dir.files)
              /\ \A i \in PageIds :
                    /\ site.pages[i].name = NameOf(content_dir.layout, i)
                    /\ site.pages[i].draft = content_dir.files[i].draft
                    /\ site.pages[i].raw = content_dir.files[i].content
        /\ NonDraftPages = NonDraftFiles

\* A site was loaded without drafts from a draft and a page that is none.
C18_Witness ==
    /\ Loaded
    /\ ~site.drafts
    /\ Len(content_dir.files) = 2
    /\ \E i, j \in 1..2 : content_dir.files[i].draft /\ ~content_dir.files[j].draft
    /\ Len(site.pages) = 1

(***************************************************************************)
(* More claims about Site::watch, checked under SpecWatch.                 *)
(***************************************************************************)
\* A build has been started by watch and has not handed back its result.
BuildRunning == bpc \in {"loaded", "content", "scope", "returned"}

\* C19: while a build is running, watch is inside site.build(): it takes no
\* event off the channel, where the events that arrive wait in order, and
\* it starts a rebuild only when no build is running.
C19_OneBuildAtATime ==
    [][/\ BuildRunning =>
            /\ wpc = "build"
            /\ \/ queue' = queue
               \/ \E ev \in Events : queue' = Append(queue, ev)
       /\ ((wpc # "new" /\ wpc' = "new") \/ (bpc # "loaded" /\ bpc' = "loaded"))
            => ~BuildRunning]_vars

\* A second build is running, after a first that returned Ok, with an
\* event waiting on the channel.
C19_Witness ==
    /\ builds = 2
    /\ wpc = "build"
    /\ bpc = "scope"
    /\ queue # <<>>

(***************************************************************************)
(* More claims about Site::build, checked under Spec.                      *)
(***************************************************************************)
ContentInProgress == bpc = "content" /\ \E p \in PageIds : task[p] = "pending"
CleanInProgress == spc["clean"] \in {"remove", "create"}

\* C21 as stated: clean_target_dir does not wait for render_content: while
\* render_content is in progress, clean_target_dir can take its step.
C21_AsStated ==
    ContentInProgress => ENABLED (clean_target_dir_remove \/ clean_target_dir_create)

\* C21, amended: render_content and clean_target_dir are never in progress
\* together. While render_content runs, clean_target_dir has not been
\* spawned; while clean_target_dir runs, every page has been rendered.
C21_Amended ==
    /\ bpc = "content" => spc["clean"] = "unspawned"
    /\ CleanInProgress =>
          /\ bpc = "scope"
          /\ \A p \in PageIds : task[p] = "ok" /\ site.pages[p].rendered

\* clean_target_dir is between its two calls, on a site of two pages.
C21_Witness ==
    /\ spc["clean"] = "create"
    /\ Len(site.pages) = 2

\* C22 as stated: the four writers do not interfere, so what render_sass
\* returns is what it returns when it runs first: after a clean_target_dir
\* that succeeded the target is empty, and fs::create_dir(target/css) does
\* not fail, static/css or not.
C22_AsStated ==
    (spc["clean"] = "done" /\ res["clean"].ok /\ spc["sass"] = "done")
        => res["sass"] # Error(<<"Error creating", "css">>)

\* C23 as stated: the error render_content returns for an equation that
\* fails to render names a page whose equation failed.
C23_AsStated ==
    ~cerr.ok =>
        \E p \in PageIds :
            /\ task[p] = "err"
            /\ Contains(site.pages[p].name, cerr.err)

(***************************************************************************)
(* More claims about src/latex.rs.                                         *)
(***************************************************************************)
\* The offset of the first open marker of t, or the length of t when it
\* has none.
FirstMarker(t) ==
    MinOf(Occurrences(BLOCK_START_DELIM, t) \cup Occurrences(INLINE_START_DELIM, t)
            \cup {Len(t)})

\* C24: parse_text never fails: it returns as a Literal the text before
\* the first open marker of its input (all of it when there is none) and
\* leaves the rest, which is empty or begins with an open marker. In a
\* successful result of parse_latex no Literal is empty, no Literal holds
\* an open marker, and no two Literals are next to each other.
C24_LiteralsMaximal ==
    /\ LET r == parse_text(input)
           k == FirstMarker(input)
       IN  /\ r.ok
           /\ r.out = Literal(SubSeq(input, 1, k))
           /\ r.rest = SubSeq(input, k + 1, Len(input))
           /\ \/ r.rest = <<>>
              \/ IsPrefix(BLOCK_START_DELIM, r.rest)
              \/ IsPrefix(INLINE_START_DELIM, r.rest)
    /\ (WasParsed /\ parsed.ok) =>
          /\ \A n \in 1..Len(parsed.spans) :
                parsed.spans[n].kind = "Literal" =>
                    /\ parsed.spans[n].s # <<>>
                    /\ ~HasOpenMarker(parsed.spans[n].s)
          /\ \A n \in 1..(Len(parsed.spans) - 1) :
                ~(parsed.spans[n].kind = "Literal" /\ parsed.spans[n + 1].kind = "Literal")

\* parse_latex has split a text into a Literal, an equation and a Literal;
\* parse_text on the same text stops at the equation's open marker.
C24_Witness ==
    /\ WasParsed
    /\ parsed.ok
    /\ Len(parsed.spans) = 3
    /\ parsed.spans[1].kind = "Literal"
    /\ parsed.spans[2].kind # "Literal"
    /\ parsed.spans[3].kind = "Literal"
    /\ parse_text(input).rest # <<>>

\* What one span contributes: a Literal its text, an InlineEq KaTeX's
\* rendering without display mode, a BlockEq KaTeX's rendering with it.
Rendering(sp) ==
    IF sp.kind = "Literal" THEN sp.s
    ELSE Katex(sp.s, sp.kind = "BlockEq")

\* The renderings of the first n spans, one after the other.
RECURSIVE RenderingsUpTo(_, _)
RenderingsUpTo(spans, n) ==
    IF n = 0 THEN <<>>
    ELSE RenderingsUpTo(spans, n - 1) \o Rendering(spans[n])

FailingSpans(spans) ==
    {n \in 1..Len(spans) : spans[n].kind # "Literal" /\ ~KatexOk(spans[n].s)}

WasRendered == latex_html # NotRendered

\* C25: render_latex returns the renderings of its spans in their order,
\* one after the other, when KaTeX renders every equation; when KaTeX
\* rejects one, it returns an error that holds the first rejected source
\* and no output.
C25_RenderInOrder ==
    WasRendered =>
        IF FailingSpans(ast) = {}
        THEN /\ latex_html.ok
             /\ latex_html.out = RenderingsUpTo(ast, Len(ast))
        ELSE /\ ~latex_html.ok
             /\ latex_html.out = <<>>
             /\ latex_html.err =
                    <<"Invalid LaTeX equation">> \o ast[MinOf(FailingSpans(ast))].s

\* render_latex has rendered a Literal, an inline and a block equation.
C25_Witness ==
    /\ WasRendered
    /\ latex_html.ok
    /\ Len(ast) = 3
    /\ {ast[n].kind : n \in 1..3} = {"Literal", "InlineEq", "BlockEq"}
    /\ ast[1].s # <<>>

\* render_latex has failed on an equation that follows a Literal.
C25_WitnessError ==
    /\ WasRendered
    /\ ~latex_html.ok
    /\ Len(ast) >= 2
    /\ ast[1] = Literal(<<"a">>)
    /\ FailingSpans(ast) # {}

\* C26: the four writers are spawned when clean_target_dir has returned
\* and not before, whether it returned an error or not; each of them that
\* has not finished can then take its step, and build returns only when
\* all have finished. After a failed clean_target_dir the target is not one
\* that clean_target_dir made: a directory that was there before still
\* holds what it held.
C26_CleanFailureDoesNotStop ==
    /\ bpc = "scope" => \A p \in PageIds : task[p] = "ok"
    /\ \A w \in Writers : spc[w] # "unspawned" => ScopeRan
    /\ ScopeRan =>
          \A w \in Writers :
              /\ spc[w] # "unspawned"
              /\ (bpc = "scope" /\ spc[w] # "done") => ENABLED StageStep(w)
              /\ bpc = "returned" => spc[w] = "done"
    /\ (ScopeRan /\ ~res["clean"].ok) =>
          /\ target.by # "clean"
          /\ target.by = "old" => Stale.entries \subseteq target.entries

\* clean_target_dir has failed on a directory that was there, and build
\* has returned after the four writers succeeded and put their files beside
\* the old one.
C26_Witness ==
    /\ bpc = "returned"
    /\ Failed("clean")
    /\ \A w \in Writers : spc[w] = "done" /\ res[w].ok
    /\ target.by = "old"
    /\ \A path \in {<<"old.html">>, <<"a.png">>, <<"atom.xml">>, <<"index.html">>,
                     <<"css", "style.css">>} : HasEntry(path)

====
